---- MODULE Spec2Model ----
(***************************************************************************)
(* Model of amazon_parser.py: the CPU/GPU classifiers of                   *)
(* SpecificationParser, the conflict resolution of                         *)
(* AmazonParser.standardize_specs, the unit normalizers, standardize_specs *)
(* called from several threads, and the loop of process_html_documents.    *)
(*                                                                         *)
(* A Python str is a tuple of one-character strings, so that lower(),      *)
(* strip(), substring tests and regular-expression matching are computed   *)
(* character by character.  None is a value no str is equal to.            *)
(***************************************************************************)
EXTENDS Integers, Sequences, FiniteSets, TLC

VARIABLES
    stats,  \* ProcessingStats of the AmazonParser
    op,     \* the operation called last (or about to be called)
    pc,     \* "call": op is about to run on args; "done": ret is its result;
            \* any other value is a place inside op
    args,   \* the arguments of op
    ret     \* the value op returned

vars == <<stats, op, pc, args, ret>>

None == <<"None">>

\* str(g) for a match group g: a str is itself, None prints as 'None'
Str(g) == IF g = None THEN <<"N","o","n","e">> ELSE g

\* Python truthiness: None, '' and the number 0 are falsy
Truthy(x) == x # None /\ x # <<>> /\ x # <<"int", 0>>

\* A value that is not a str: a number, <<"int", n>> or <<"float", n, d>>
IsNumber(x) == Len(x) >= 2 /\ x[1] \in {"int", "float"}
IsStr(x) == x # None /\ ~IsNumber(x)

\* An exception that leaves a function is the value <<"raise", name>> in place
\* of a returned value.  re.search raises TypeError for a string that is
\* not a str.
TypeError == <<"raise", "TypeError">>
Raised(x) == Len(x) = 2 /\ x[1] = "raise"

----------------------------------------------------------------------------
(* Characters *)

Uppers == <<"A","B","C","D","E","F","G","H","I","J","K","L","M","N","O","P","Q","R","S","T","U","V","W","X","Y","Z">>
Lowers == <<"a","b","c","d","e","f","g","h","i","j","k","l","m","n","o","p","q","r","s","t","u","v","w","x","y","z">>
Digits == {"0","1","2","3","4","5","6","7","8","9"}
Whitespace == {" "}

ToLower == [c \in {Uppers[k] : k \in 1..Len(Uppers)} |->
               Lowers[CHOOSE k \in 1..Len(Uppers) : Uppers[k] = c]]
ToUpper == [c \in {Lowers[k] : k \in 1..Len(Lowers)} |->
               Uppers[CHOOSE k \in 1..Len(Lowers) : Lowers[k] = c]]

UpperSet == DOMAIN ToLower
LowerSet == DOMAIN ToUpper

LowerChar(c) == IF c \in UpperSet THEN ToLower[c] ELSE c
UpperChar(c) == IF c \in LowerSet THEN ToUpper[c] ELSE c

\* str.lower(), str.upper()
lower(s) == [k \in 1..Len(s) |-> LowerChar(s[k])]
upper(s) == [k \in 1..Len(s) |-> UpperChar(s[k])]

\* str.strip(): drop leading and trailing whitespace
strip(s) ==
    LET keep == {k \in 1..Len(s) : s[k] \notin Whitespace}
        Min(S) == CHOOSE x \in S : \A y \in S : x <= y
        Max(S) == CHOOSE x \in S : \A y \in S : x >= y
    IN IF keep = {} THEN <<>> ELSE SubSeq(s, Min(keep), Max(keep))

\* sub in s
Contains(s, sub) ==
    \E i \in 1..(Len(s) - Len(sub) + 1) : SubSeq(s, i, i + Len(sub) - 1) = sub

----------------------------------------------------------------------------
(* Regular expressions (module re): syntax trees and backtracking search *)

Lit(c)    == [t |-> "lit", c |-> c]
Set(cs)   == [t |-> "set", cs |-> cs]
Cat(rs)   == [t |-> "cat", rs |-> rs]
Alt(rs)   == [t |-> "alt", rs |-> rs]
Opt(r)    == [t |-> "opt", r |-> r]
Star(r)   == [t |-> "star", r |-> r]
Grp(k, r) == [t |-> "grp", k |-> k, r |-> r]
Word(w)   == [t |-> "word", w |-> w]
Digit     == Set(Digits)
Space     == Set(Whitespace)

Fail == [ok |-> FALSE]

\* character c of the text against character d of the pattern; ic: re.IGNORECASE
SameChar(c, d, ic) == c = d \/ (ic /\ LowerChar(c) = LowerChar(d))

(* MatchK(ks, s, i, caps, ic): match the regular expressions ks one after    *)
(* another in s from position i, greedy quantifiers first and the           *)
(* alternatives of a branch left to right, backtracking on failure: the     *)
(* first way that succeeds is the match, caps its groups.                   *)
RECURSIVE MatchK(_, _, _, _, _)
MatchK(ks, s, i, caps, ic) ==
    IF Len(ks) = 0 THEN [ok |-> TRUE, end |-> i, caps |-> caps]
    ELSE
    LET r == Head(ks)
        rest == Tail(ks)
    IN CASE r.t = "lit" ->
              IF i <= Len(s) /\ SameChar(s[i], r.c, ic)
              THEN MatchK(rest, s, i + 1, caps, ic) ELSE Fail
         [] r.t = "word" ->
              IF /\ i + Len(r.w) - 1 <= Len(s)
                 /\ \A k \in 1..Len(r.w) : SameChar(s[i + k - 1], r.w[k], ic)
              THEN MatchK(rest, s, i + Len(r.w), caps, ic) ELSE Fail
         [] r.t = "set" ->
              IF i <= Len(s) /\ \E d \in r.cs : SameChar(s[i], d, ic)
              THEN MatchK(rest, s, i + 1, caps, ic) ELSE Fail
         [] r.t = "cat" -> MatchK(r.rs \o rest, s, i, caps, ic)
         [] r.t = "alt" ->
              IF Len(r.rs) = 0 THEN Fail
              ELSE LET a == MatchK(<<Head(r.rs)>> \o rest, s, i, caps, ic)
                   IN IF a.ok THEN a
                      ELSE MatchK(<<Alt(Tail(r.rs))>> \o rest, s, i, caps, ic)
         [] r.t = "opt" ->
              LET a == MatchK(<<r.r>> \o rest, s, i, caps, ic)
              IN IF a.ok THEN a ELSE MatchK(rest, s, i, caps, ic)
         [] r.t = "star" ->
              LET a == MatchK(<<r.r, r>> \o rest, s, i, caps, ic)
              IN IF a.ok THEN a ELSE MatchK(rest, s, i, caps, ic)
         [] r.t = "grp" ->
              MatchK(<<r.r, [t |-> "end", k |-> r.k, from |-> i]>> \o rest,
                     s, i, caps, ic)
         [] r.t = "end" ->
              MatchK(rest, s, i,
                     [caps EXCEPT ![r.k] = SubSeq(s, r.from, i - 1)], ic)

RECURSIVE SearchFrom(_, _, _, _)
SearchFrom(p, s, i, ic) ==
    IF i > Len(s) + 1 THEN Fail
    ELSE LET m == MatchK(<<p.re>>, s, i, [k \in 1..p.n |-> None], ic)
         IN IF m.ok THEN m ELSE SearchFrom(p, s, i + 1, ic)

\* re.search(pattern, text, flags): the leftmost match, or Fail for None
re_search(p, s, ic) == SearchFrom(p, s, 1, ic)

\* match.groups()
groups(m) == m.caps

\* for pattern in patterns: match = re.search(pattern, text, re.IGNORECASE);
\* if match: ...  -- the match of the first pattern that matches
RECURSIVE FirstMatch(_, _)
FirstMatch(patterns, text) ==
    IF Len(patterns) = 0 THEN Fail
    ELSE LET m == re_search(Head(patterns), text, TRUE)
         IN IF m.ok THEN m ELSE FirstMatch(Tail(patterns), text)

\* next((g for g in gs if ...), default): hits are the places of gs that pass the test
FirstGroup(gs, hits, default) ==
    IF hits = {} THEN default
    ELSE gs[CHOOSE k \in hits : \A j \in hits : k <= j]

\* re.match(r'\d{n}', w): w starts with n digits
StartsWithDigits(w, n) == Len(w) >= n /\ \A k \in 1..n : w[k] \in Digits
\* re.match(r'\d{n}$', w): w is n digits ($ also matches before a final newline,
\* and no text here holds one)
IsDigits(w, n) == Len(w) = n /\ StartsWithDigits(w, n)

----------------------------------------------------------------------------
(* SpecificationParser.__init__: the pattern tables *)

nvidia_patterns == <<
    \* r'(nvidia|geforce)\s*(rtx|gtx)\s*(40|30|20|16|10)(\d{2})\s*(ti|super)?'
    [re |-> Cat(<<Grp(1, Alt(<<Word(<<"n","v","i","d","i","a">>),
     Word(<<"g","e","f","o","r","c","e">>)>>)), Star(Space), Grp(2, Alt(<<Word(<<"r","t","x">>),
     Word(<<"g","t","x">>)>>)), Star(Space), Grp(3, Alt(<<Word(<<"4","0">>), Word(<<"3","0">>),
     Word(<<"2","0">>), Word(<<"1","6">>), Word(<<"1","0">>)>>)), Grp(4, Cat(<<Digit, Digit>>)),
     Star(Space), Opt(Grp(5, Alt(<<Word(<<"t","i">>), Word(<<"s","u","p","e","r">>)>>)))>>), n |->
     5],
    \* r'(nvidia|geforce|rtx|gtx)\s*(rtx|gtx)?\s*(40|30|20|16|10)(\d{2})\s*(ti|super)?'
    [re |-> Cat(<<Grp(1, Alt(<<Word(<<"n","v","i","d","i","a">>),
     Word(<<"g","e","f","o","r","c","e">>), Word(<<"r","t","x">>), Word(<<"g","t","x">>)>>)),
     Star(Space), Opt(Grp(2, Alt(<<Word(<<"r","t","x">>), Word(<<"g","t","x">>)>>))), Star(Space),
     Grp(3, Alt(<<Word(<<"4","0">>), Word(<<"3","0">>), Word(<<"2","0">>), Word(<<"1","6">>),
     Word(<<"1","0">>)>>)), Grp(4, Cat(<<Digit, Digit>>)), Star(Space), Opt(Grp(5,
     Alt(<<Word(<<"t","i">>), Word(<<"s","u","p","e","r">>)>>)))>>), n |-> 5] >>

amd_gpu_patterns == <<
    \* r'amd\s*(radeon)?\s*(rx)\s*(7|6|5|4)(\d{3})\s*(xt)?'
    [re |-> Cat(<<Word(<<"a","m","d">>), Star(Space), Opt(Grp(1,
     Word(<<"r","a","d","e","o","n">>))), Star(Space), Grp(2, Word(<<"r","x">>)), Star(Space),
     Grp(3, Set({"7","6","5","4"})), Grp(4, Cat(<<Digit, Digit, Digit>>)), Star(Space), Opt(Grp(5,
     Word(<<"x","t">>)))>>), n |-> 5],
    \* r'(radeon|amd)?\s*(rx)?\s*(7|6|5|4)(\d{3})\s*(xt)?'
    [re |-> Cat(<<Opt(Grp(1, Alt(<<Word(<<"r","a","d","e","o","n">>), Word(<<"a","m","d">>)>>))),
     Star(Space), Opt(Grp(2, Word(<<"r","x">>))), Star(Space), Grp(3, Set({"7","6","5","4"})),
     Grp(4, Cat(<<Digit, Digit, Digit>>)), Star(Space), Opt(Grp(5, Word(<<"x","t">>)))>>), n |-> 5] >>

intel_gpu_patterns == <<
    \* r'(intel)?\s*arc\s*[ab]?(3|5|7)(\d{2})'
    [re |-> Cat(<<Opt(Grp(1, Word(<<"i","n","t","e","l">>))), Star(Space), Word(<<"a","r","c">>),
     Star(Space), Opt(Set({"a","b"})), Grp(2, Set({"3","5","7"})), Grp(3, Cat(<<Digit, Digit>>))>>),
     n |-> 3],
    \* r'(intel)?\s*arc\s*(a|b)?(\d{3})'
    [re |-> Cat(<<Opt(Grp(1, Word(<<"i","n","t","e","l">>))), Star(Space), Word(<<"a","r","c">>),
     Star(Space), Opt(Grp(2, Set({"a","b"}))), Grp(3, Cat(<<Digit, Digit, Digit>>))>>), n |-> 3],
    \* r'(intel)?\s*iris\s*(xe(\s*max)?|pro|plus)?'
    [re |-> Cat(<<Opt(Grp(1, Word(<<"i","n","t","e","l">>))), Star(Space),
     Word(<<"i","r","i","s">>), Star(Space), Opt(Grp(2, Alt(<<Cat(<<Word(<<"x","e">>), Opt(Grp(3,
     Cat(<<Star(Space), Word(<<"m","a","x">>)>>)))>>), Word(<<"p","r","o">>),
     Word(<<"p","l","u","s">>)>>)))>>), n |-> 3],
    \* r'(intel)?\s*iris\s*xe\s*graphics'
    [re |-> Cat(<<Opt(Grp(1, Word(<<"i","n","t","e","l">>))), Star(Space),
     Word(<<"i","r","i","s">>), Star(Space), Word(<<"x","e">>), Star(Space),
     Word(<<"g","r","a","p","h","i","c","s">>)>>), n |-> 1],
    \* r'(intel)?\s*(uhd|hd)\s*graphics\s*(\d{3,4})?'
    [re |-> Cat(<<Opt(Grp(1, Word(<<"i","n","t","e","l">>))), Star(Space), Grp(2,
     Alt(<<Word(<<"u","h","d">>), Word(<<"h","d">>)>>)), Star(Space),
     Word(<<"g","r","a","p","h","i","c","s">>), Star(Space), Opt(Grp(3, Cat(<<Digit, Digit, Digit,
     Opt(Digit)>>)))>>), n |-> 3] >>

intel_cpu_patterns == <<
    \* r'(intel)?\s*(core)?\s*(ultra|i[3579])\s*-?\s*(\d{1,2})(\d{3})[HKF]?[HKF]?\s*(h|u|hx|k)?'
    [re |-> Cat(<<Opt(Grp(1, Word(<<"i","n","t","e","l">>))), Star(Space), Opt(Grp(2,
     Word(<<"c","o","r","e">>))), Star(Space), Grp(3, Alt(<<Word(<<"u","l","t","r","a">>),
     Cat(<<Lit("i"), Set({"3","5","7","9"})>>)>>)), Star(Space), Opt(Lit("-")), Star(Space), Grp(4,
     Cat(<<Digit, Opt(Digit)>>)), Grp(5, Cat(<<Digit, Digit, Digit>>)), Opt(Set({"H","K","F"})),
     Opt(Set({"H","K","F"})), Star(Space), Opt(Grp(6, Alt(<<Lit("h"), Lit("u"), Word(<<"h","x">>),
     Lit("k")>>)))>>), n |-> 6],
    \* r'(intel)?\s*(core)?\s*(i[3579])\s*-?\s*(\d{1,2})th\s*gen'
    [re |-> Cat(<<Opt(Grp(1, Word(<<"i","n","t","e","l">>))), Star(Space), Opt(Grp(2,
     Word(<<"c","o","r","e">>))), Star(Space), Grp(3, Cat(<<Lit("i"), Set({"3","5","7","9"})>>)),
     Star(Space), Opt(Lit("-")), Star(Space), Grp(4, Cat(<<Digit, Opt(Digit)>>)), Word(<<"t","h">>),
     Star(Space), Word(<<"g","e","n">>)>>), n |-> 4] >>

amd_cpu_patterns == <<
    \* r'(amd)?\s*(ryzen)\s*([3579])\s*(\d{4})[HUX]?\s*(h|u|hx)?'
    [re |-> Cat(<<Opt(Grp(1, Word(<<"a","m","d">>))), Star(Space), Grp(2,
     Word(<<"r","y","z","e","n">>)), Star(Space), Grp(3, Set({"3","5","7","9"})), Star(Space),
     Grp(4, Cat(<<Digit, Digit, Digit, Digit>>)), Opt(Set({"H","U","X"})), Star(Space), Opt(Grp(5,
     Alt(<<Lit("h"), Lit("u"), Word(<<"h","x">>)>>)))>>), n |-> 5],
    \* r'(amd)?\s*(ryzen)\s*([3579])\s*-?\s*(\d{4,5})[HUX]?\s*(h|u|hx)?'
    [re |-> Cat(<<Opt(Grp(1, Word(<<"a","m","d">>))), Star(Space), Grp(2,
     Word(<<"r","y","z","e","n">>)), Star(Space), Grp(3, Set({"3","5","7","9"})), Star(Space),
     Opt(Lit("-")), Star(Space), Grp(4, Cat(<<Digit, Digit, Digit, Digit, Opt(Digit)>>)),
     Opt(Set({"H","U","X"})), Star(Space), Opt(Grp(5, Alt(<<Lit("h"), Lit("u"),
     Word(<<"h","x">>)>>)))>>), n |-> 5] >>

\* the patterns of the searches inside the Intel GPU branch (no flags)
\* r'(a|b)?(\d{3})'
arc_model_pattern == 
    [re |-> Cat(<<Opt(Grp(1, Set({"a","b"}))), Grp(2, Cat(<<Digit, Digit, Digit>>))>>), n |-> 2]
\* r'(\d{3,4})'
uhd_model_pattern == 
    [re |-> Grp(1, Cat(<<Digit, Digit, Digit, Opt(Digit)>>)), n |-> 1]

----------------------------------------------------------------------------
(* The records *)

\* GPUInfo(), CPUInfo(): every field defaults to None
GPUInfo == [brand |-> None, series |-> None, model |-> None, variant |-> None,
            source |-> None, confidence |-> None]
CPUInfo == [brand |-> None, series |-> None, generation |-> None, model |-> None,
            variant |-> None, source |-> None, confidence |-> None]

\* ProcessingStats()
ProcessingStats == [total_documents |-> 0, successful_processing |-> 0,
                    failed_processing |-> 0, inserted_documents |-> 0,
                    gpu_conflicts |-> 0, cpu_conflicts |-> 0]

\* source=... if is_technical_detail else ..., confidence=...
SourceOf(is_technical_detail) ==
    IF is_technical_detail THEN <<"t","e","c","h","n","i","c","a","l","_","d","e","t","a","i","l">> ELSE <<"t","i","t","l","e">>
\* ConfidenceOf with the confidence not following the source flag
ConfidenceOfAlwaysHigh(is_technical_detail) == <<"h","i","g","h">>

ConfidenceOf(is_technical_detail) ==
    IF is_technical_detail THEN <<"h","i","g","h">> ELSE <<"l","o","w">>

----------------------------------------------------------------------------
(* SpecificationParser.parse_gpu_from_text *)

\* the NVIDIA branch: gs are the groups of the match
nvidia_gpu(gpu_info, text, gs) ==
    LET series_num == FirstGroup(gs, {k \in DOMAIN gs : gs[k] \in {<<"4","0">>, <<"3","0">>, <<"2","0">>, <<"1","6">>, <<"1","0">>}}, <<>>)
        model_num  == FirstGroup(gs, {k \in DOMAIN gs : IsDigits(Str(gs[k]), 2)}, <<>>)
    IN [gpu_info EXCEPT
          !.brand = <<"N","V","I","D","I","A">>,
          !.series = IF Contains(text, <<"r","t","x">>) THEN <<"R","T","X">>
                     ELSE IF Contains(text, <<"g","t","x">>) THEN <<"G","T","X">> ELSE @,
          !.model = IF series_num # <<>> /\ model_num # <<>>
                    THEN series_num \o model_num ELSE @,
          !.variant = IF Contains(text, <<"t","i">>) THEN <<"T","i">>
                      ELSE IF Contains(text, <<"s","u","p","e","r">>) THEN <<"S","U","P","E","R">> ELSE @]

\* the Intel branch: Arc, Iris, UHD/HD by substring of the text
intel_gpu(gpu_info, text) ==
    LET info == [gpu_info EXCEPT !.brand = <<"I","n","t","e","l">>]
    IN IF Contains(text, <<"a","r","c">>) THEN
           LET arc_match == re_search(arc_model_pattern, text, FALSE)
               prefix == groups(arc_match)[1]
               number == groups(arc_match)[2]
           IN [info EXCEPT
                 !.series = <<"A","r","c">>,
                 !.model = IF arc_match.ok
                           THEN IF Truthy(prefix) THEN upper(prefix) \o number
                                ELSE number
                           ELSE @]
       ELSE IF Contains(text, <<"i","r","i","s">>) THEN
           [info EXCEPT
              !.series = <<"I","r","i","s">>,
              !.variant = IF Contains(text, <<"x","e"," ","m","a","x">>) THEN <<"X","e"," ","M","A","X">>
                          ELSE IF Contains(text, <<"x","e">>) THEN <<"X","e">>
                          ELSE IF Contains(text, <<"p","r","o">>) THEN <<"P","r","o">>
                          ELSE IF Contains(text, <<"p","l","u","s">>) THEN <<"P","l","u","s">> ELSE @]
       ELSE IF Contains(text, <<"u","h","d">>) \/ Contains(text, <<"h","d">>) THEN
           LET model_match == re_search(uhd_model_pattern, text, FALSE)
           IN [info EXCEPT
                 !.series = IF Contains(text, <<"u","h","d">>) THEN <<"U","H","D">> ELSE <<"H","D">>,
                 !.model = IF model_match.ok THEN groups(model_match)[1] ELSE @]
       ELSE info

\* the AMD branch
amd_gpu(gpu_info, text, gs) ==
    LET series_num == FirstGroup(gs, {k \in DOMAIN gs : gs[k] \in {<<"7">>, <<"6">>, <<"5">>, <<"4">>}}, <<>>)
        model_num  == FirstGroup(gs, {k \in DOMAIN gs : IsDigits(Str(gs[k]), 3)}, <<>>)
    IN [gpu_info EXCEPT
          !.brand = <<"A","M","D">>,
          !.series = <<"R","X">>,
          !.model = IF series_num # <<>> /\ model_num # <<>>
                    THEN series_num \o model_num ELSE @,
          !.variant = IF Contains(text, <<"x","t">>) THEN <<"X","T">> ELSE @]

\* classify_gpu with the AMD patterns tried first
classify_gpu_amd_first(text, gpu_info) ==
    LET nvidia == FirstMatch(nvidia_patterns, text)
        intel  == FirstMatch(intel_gpu_patterns, text)
        amd    == FirstMatch(amd_gpu_patterns, text)
    IN IF amd.ok THEN amd_gpu(gpu_info, text, groups(amd))
       ELSE IF nvidia.ok THEN nvidia_gpu(gpu_info, text, groups(nvidia))
       ELSE IF intel.ok THEN intel_gpu(gpu_info, text)
       ELSE gpu_info

\* the body after the empty-text return: text is lower-cased and stripped
classify_gpu(text, gpu_info) ==
    LET nvidia == FirstMatch(nvidia_patterns, text)
        intel  == FirstMatch(intel_gpu_patterns, text)
        amd    == FirstMatch(amd_gpu_patterns, text)
    IN IF nvidia.ok THEN nvidia_gpu(gpu_info, text, groups(nvidia))
       ELSE IF intel.ok THEN intel_gpu(gpu_info, text)
       ELSE IF amd.ok THEN amd_gpu(gpu_info, text, groups(amd))
       ELSE gpu_info

\* parse_gpu_from_text with the text stripped before the emptiness test
parse_gpu_from_text_strip_first(text, is_technical_detail) ==
    IF ~Truthy(text) \/ ~Truthy(strip(text)) THEN GPUInfo
    ELSE classify_gpu(strip(lower(text)),
                      [GPUInfo EXCEPT !.source = SourceOf(is_technical_detail),
                                      !.confidence = ConfidenceOf(is_technical_detail)])

parse_gpu_from_text(text, is_technical_detail) ==
    IF ~Truthy(text) THEN GPUInfo
    ELSE classify_gpu(strip(lower(text)),
                      [GPUInfo EXCEPT !.source = SourceOf(is_technical_detail),
                                      !.confidence = ConfidenceOf(is_technical_detail)])

----------------------------------------------------------------------------
(* SpecificationParser.parse_cpu_from_text *)

\* the Intel branch
intel_cpu(cpu_info, gs) ==
    LET series  == FirstGroup(gs, {k \in DOMAIN gs : gs[k] \in {<<"u","l","t","r","a">>, <<"i","3">>, <<"i","5">>, <<"i","7">>, <<"i","9">>}}, <<>>)
        gen     == FirstGroup(gs, {k \in DOMAIN gs : StartsWithDigits(Str(gs[k]), 1)}, <<>>)
        model   == FirstGroup(gs, {k \in DOMAIN gs : StartsWithDigits(Str(gs[k]), 3)}, <<>>)
        variant == FirstGroup(gs, {k \in DOMAIN gs : gs[k] \in {<<"h">>, <<"u">>, <<"h","x">>, <<"k">>}}, None)
    IN [cpu_info EXCEPT
          !.brand = <<"I","n","t","e","l">>,
          !.series = IF series # <<>> THEN upper(series) ELSE None,
          !.generation = IF gen # <<>> THEN gen \o <<"t","h"," ","G","e","n">> ELSE @,
          !.model = IF model # <<>> THEN model ELSE @,
          !.variant = IF Truthy(variant) THEN upper(variant) ELSE @]

\* amd_cpu with the generation taken from the series digit
amd_cpu_gen_from_series(cpu_info, text, gs) ==
    LET ryzen_num == FirstGroup(gs, {k \in DOMAIN gs : gs[k] \in {<<"3">>, <<"5">>, <<"7">>, <<"9">>}}, <<>>)
        model     == FirstGroup(gs, {k \in DOMAIN gs : StartsWithDigits(Str(gs[k]), 4)}, <<>>)
        variant   == FirstGroup(gs, {k \in DOMAIN gs : gs[k] \in {<<"h">>, <<"u">>, <<"h","x">>}}, None)
    IN [cpu_info EXCEPT
          !.brand = <<"A","M","D">>,
          !.series = IF Contains(text, <<"r","y","z","e","n">>) THEN <<"R","y","z","e","n"," ">> \o ryzen_num ELSE @,
          !.model = IF model # <<>> THEN model ELSE @,
          !.generation = IF model # <<>> THEN <<"G","e","n"," ">> \o ryzen_num ELSE @,
          !.variant = IF Truthy(variant) THEN upper(variant) ELSE @]

\* the AMD branch
amd_cpu(cpu_info, text, gs) ==
    LET ryzen_num == FirstGroup(gs, {k \in DOMAIN gs : gs[k] \in {<<"3">>, <<"5">>, <<"7">>, <<"9">>}}, <<>>)
        model     == FirstGroup(gs, {k \in DOMAIN gs : StartsWithDigits(Str(gs[k]), 4)}, <<>>)
        variant   == FirstGroup(gs, {k \in DOMAIN gs : gs[k] \in {<<"h">>, <<"u">>, <<"h","x">>}}, None)
    IN [cpu_info EXCEPT
          !.brand = <<"A","M","D">>,
          !.series = IF Contains(text, <<"r","y","z","e","n">>) THEN <<"R","y","z","e","n"," ">> \o ryzen_num ELSE @,
          !.model = IF model # <<>> THEN model ELSE @,
          !.generation = IF model # <<>> THEN <<"G","e","n"," ">> \o <<model[1]>> ELSE @,
          !.variant = IF Truthy(variant) THEN upper(variant) ELSE @]

classify_cpu(text, cpu_info) ==
    LET intel == FirstMatch(intel_cpu_patterns, text)
        amd   == FirstMatch(amd_cpu_patterns, text)
    IN IF intel.ok THEN intel_cpu(cpu_info, groups(intel))
       ELSE IF amd.ok THEN amd_cpu(cpu_info, text, groups(amd))
       ELSE cpu_info

parse_cpu_from_text(text, is_technical_detail) ==
    IF ~Truthy(text) THEN CPUInfo
    ELSE classify_cpu(strip(lower(text)),
                      [CPUInfo EXCEPT !.source = SourceOf(is_technical_detail),
                                      !.confidence = ConfidenceOf(is_technical_detail)])

----------------------------------------------------------------------------
(* Numbers.  A Python float is the tagged fraction <<"float", n, d>> in     *)
(* lowest terms and an int is <<"int", n>>.  Scaling by 1024 is exact in    *)
(* binary floating point, so the fraction is the float's value whenever    *)
(* the decimal text is itself representable (16, 1.5, 0.25).               *)

DigitChars == <<"0","1","2","3","4","5","6","7","8","9">>
DigitVal(c) == (CHOOSE k \in 1..Len(DigitChars) : DigitChars[k] = c) - 1

RECURSIVE Pow10(_)
Pow10(k) == IF k = 0 THEN 1 ELSE 10 * Pow10(k - 1)

\* int(w) for a run of digits w
RECURSIVE ToInt(_)
ToInt(w) == IF Len(w) = 0 THEN 0
            ELSE 10 * ToInt(SubSeq(w, 1, Len(w) - 1)) + DigitVal(w[Len(w)])

RECURSIVE Gcd(_, _)
Gcd(a, b) == IF b = 0 THEN a ELSE Gcd(b, a % b)

PyFloat(n, d) == <<"float", n \div Gcd(n, d), d \div Gcd(n, d)>>
PyInt(n) == <<"int", n>>

\* float(w) for w matching \d+(\.\d+)?
ToFloat(w) ==
    LET dots == {k \in 1..Len(w) : w[k] = "."}
        dot  == CHOOSE k \in dots : TRUE
        frac == SubSeq(w, dot + 1, Len(w))
    IN IF dots = {} THEN PyFloat(ToInt(w), 1)
       ELSE PyFloat(ToInt(SubSeq(w, 1, dot - 1)) * Pow10(Len(frac)) + ToInt(frac),
                  Pow10(Len(frac)))

\* x / k and x * k for a float x and a positive int k
FloatDiv(x, k) == PyFloat(x[2], x[3] * k)
FloatMul(x, k) == PyFloat(x[2] * k, x[3])

----------------------------------------------------------------------------
(* AmazonParser.normalize_*: the unit normalizers *)

\* r'(\d+(?:\.\d+)?)\s*(GB|MB|TB)?'
ram_size_pattern     == 
    [re |-> Cat(<<Grp(1, Cat(<<Cat(<<Digit, Star(Digit)>>), Opt(Cat(<<Lit("."), Cat(<<Digit,
    Star(Digit)>>)>>))>>)), Star(Space), Opt(Grp(2, Alt(<<Word(<<"G","B">>), Word(<<"M","B">>),
    Word(<<"T","B">>)>>)))>>), n |-> 2]
display_size_pattern == 
    [re |-> Cat(<<Grp(1, Cat(<<Cat(<<Digit, Star(Digit)>>), Opt(Cat(<<Lit("."), Cat(<<Digit,
    Star(Digit)>>)>>))>>)), Star(Space), Opt(Alt(<<Word(<<"i","n","c","h","e","s">>),
    Lit("\"")>>))>>), n |-> 1]
\* r'(\d+(?:\.\d+)?)\s*(?:hours|hrs?)?'
battery_life_pattern == 
    [re |-> Cat(<<Grp(1, Cat(<<Cat(<<Digit, Star(Digit)>>), Opt(Cat(<<Lit("."), Cat(<<Digit,
    Star(Digit)>>)>>))>>)), Star(Space), Opt(Cat(<<Lit("h"), Alt(<<Word(<<"o","u","r","s">>),
    Cat(<<Lit("r"), Opt(Lit("s"))>>)>>)>>))>>), n |-> 1]
\* r'(\d+(?:\.\d+)?)\s*(kg|g|kilograms|grams)?'
weight_pattern       == 
    [re |-> Cat(<<Grp(1, Cat(<<Cat(<<Digit, Star(Digit)>>), Opt(Cat(<<Lit("."), Cat(<<Digit,
    Star(Digit)>>)>>))>>)), Star(Space), Opt(Grp(2, Alt(<<Word(<<"k","g">>), Lit("g"),
    Word(<<"k","i","l","o","g","r","a","m","s">>), Word(<<"g","r","a","m","s">>)>>)))>>), n |-> 2]
\* r'(\d+)'
port_count_pattern   == 
    [re |-> Grp(1, Cat(<<Digit, Star(Digit)>>)), n |-> 1]

\* the MB and TB factor of normalize_ram_size, the gram factor of normalize_weight
RamUnitFactor == 1024
GramsPerKg == 1000

\* a normalizer without its except clause: the exception leaves it
Uncaught(e) == e

\* except Exception as e: the error is logged and control reaches the
\* return None that ends the normalizer
Caught(e) == None

\* normalize_ram_size with the unit matched case-sensitively
normalize_ram_size_case_sensitive(ram_size) ==
    IF ~Truthy(ram_size) THEN None
    ELSE LET match == re_search(ram_size_pattern, ram_size, FALSE)
             size == ToFloat(groups(match)[1])
             unit == groups(match)[2]
         IN IF ~IsStr(ram_size) THEN Caught(TypeError)
            ELSE IF ~match.ok THEN None
            ELSE IF ~Truthy(unit) THEN size
            ELSE IF upper(unit) = <<"M","B">> THEN FloatDiv(size, RamUnitFactor)
            ELSE IF upper(unit) = <<"T","B">> THEN FloatMul(size, RamUnitFactor)
            ELSE size

normalize_ram_size(ram_size) ==
    IF ~Truthy(ram_size) THEN None
    ELSE LET match == re_search(ram_size_pattern, ram_size, TRUE)
             size == ToFloat(groups(match)[1])
             unit == groups(match)[2]
         IN IF ~IsStr(ram_size) THEN Caught(TypeError)
            ELSE IF ~match.ok THEN None
            ELSE IF ~Truthy(unit) THEN size
            ELSE IF upper(unit) = <<"M","B">> THEN FloatDiv(size, RamUnitFactor)
            ELSE IF upper(unit) = <<"T","B">> THEN FloatMul(size, RamUnitFactor)
            ELSE size

normalize_display_size(display_size) ==
    IF ~Truthy(display_size) THEN None
    ELSE LET match == re_search(display_size_pattern, display_size, TRUE)
         IN IF ~IsStr(display_size) THEN Caught(TypeError)
            ELSE IF match.ok THEN ToFloat(groups(match)[1]) ELSE None

normalize_battery_life(battery_life) ==
    IF ~Truthy(battery_life) THEN None
    ELSE LET match == re_search(battery_life_pattern, battery_life, TRUE)
         IN IF ~IsStr(battery_life) THEN Caught(TypeError)
            ELSE IF match.ok THEN ToFloat(groups(match)[1]) ELSE None

normalize_weight(weight) ==
    IF ~Truthy(weight) THEN None
    ELSE LET match == re_search(weight_pattern, weight, TRUE)
             value == ToFloat(groups(match)[1])
             unit == groups(match)[2]
         IN IF ~IsStr(weight) THEN Caught(TypeError)
            ELSE IF ~match.ok THEN None
            ELSE IF Truthy(unit) /\ lower(unit) \in {<<"g">>, <<"g","r","a","m","s">>}
                 THEN FloatDiv(value, GramsPerKg)
            ELSE value

normalize_port_count(port_count) ==
    IF ~Truthy(port_count) THEN None
    ELSE LET match == re_search(port_count_pattern, port_count, FALSE)
         IN IF ~IsStr(port_count) THEN Caught(TypeError)
            ELSE IF match.ok THEN PyInt(ToInt(groups(match)[1])) ELSE None

----------------------------------------------------------------------------
(* AmazonParser.standardize_specs *)

\* tech_details is a dict from label to str: a function on the labels present.
\* tech_details.get(key, default)
Get(tech_details, key, default) ==
    IF key \in DOMAIN tech_details THEN tech_details[key] ELSE default

\* final_gpu as a field-by-field merge: the title fills what the technical
\* detail left absent
final_gpu_merged(tech_gpu, title_gpu) ==
    IF Truthy(tech_gpu.brand)
    THEN [f \in DOMAIN tech_gpu |->
             IF tech_gpu[f] = None THEN title_gpu[f] ELSE tech_gpu[f]]
    ELSE title_gpu

\* asdict(tech_gpu if tech_gpu.brand else title_gpu): a dict of the same fields
final_gpu(tech_gpu, title_gpu) ==
    IF Truthy(tech_gpu.brand) THEN tech_gpu ELSE title_gpu

\* asdict(tech_cpu if tech_cpu.brand else title_cpu)
final_cpu(tech_cpu, title_cpu) ==
    IF Truthy(tech_cpu.brand) THEN tech_cpu ELSE title_cpu

\* gpu_brand_conflict without the tests that both brands are present
gpu_brand_conflict_any_difference(tech_gpu, title_gpu) ==
    tech_gpu.brand # title_gpu.brand

\* if tech_gpu.brand and title_gpu.brand and tech_gpu.brand != title_gpu.brand
gpu_brand_conflict(tech_gpu, title_gpu) ==
    Truthy(tech_gpu.brand) /\ Truthy(title_gpu.brand) /\ tech_gpu.brand # title_gpu.brand

\* if tech_cpu.brand and title_cpu.brand and tech_cpu.brand != title_cpu.brand
cpu_brand_conflict(tech_cpu, title_cpu) ==
    Truthy(tech_cpu.brand) /\ Truthy(title_cpu.brand) /\ tech_cpu.brand # title_cpu.brand

\* the dict appended to conflicts
Conflict(component, tech, title) ==
    [component |-> component, field |-> <<"b","r","a","n","d">>,
     tech_value |-> tech.brand, title_value |-> title.brand,
     resolution |-> <<"U","s","e","d"," ","t","e","c","h","n","i","c","a","l"," ","d","e","t","a","i","l"," ","v","a","l","u","e",":"," ">> \o tech.brand]

\* the conflicts list when the GPU and the CPU have been validated
conflicts_of(tech_gpu, title_gpu, tech_cpu, title_cpu) ==
    (IF gpu_brand_conflict(tech_gpu, title_gpu)
     THEN <<Conflict(<<"G","P","U">>, tech_gpu, title_gpu)>> ELSE <<>>)
    \o
    (IF cpu_brand_conflict(tech_cpu, title_cpu)
     THEN <<Conflict(<<"C","P","U">>, tech_cpu, title_cpu)>> ELSE <<>>)

\* the specs dict before the conflicts are attached
specs_of(tech_details, processor, graphics) ==
    [brand |-> Get(tech_details, "Brand", None),
     model |-> Get(tech_details, "Item model number", None),
     series |-> Get(tech_details, "Series", None),
     processor |-> processor,
     graphics |-> graphics,
     memory |-> [ram_size |-> normalize_ram_size(Get(tech_details, "RAM Size", None)),
                 technology |-> Get(tech_details, "Memory Technology", None),
                 max_supported |-> Get(tech_details, "Maximum Memory Supported", None)],
     storage |-> [size |-> Get(tech_details, "Hard Drive Size", None),
                  type |-> Get(tech_details, "Hard Disk Description", None),
                  interface |-> Get(tech_details, "Hard Drive Interface", None)],
     display |-> [size |-> normalize_display_size(
                               Get(tech_details, "Standing screen display size", None)),
                  resolution |-> Get(tech_details, "Screen Resolution", None)],
     operating_system |-> Get(tech_details, "Operating System", None),
     battery |-> [life |-> normalize_battery_life(
                               Get(tech_details, "Average Battery Life (in hours)", None)),
                  cells |-> Get(tech_details, "Number of Lithium Ion Cells", None),
                  energy_content |-> Get(tech_details, "Lithium Battery Energy Content", None)],
     physical |-> [dimensions |-> Get(tech_details, "Product Dimensions", None),
                   weight |-> normalize_weight(Get(tech_details, "Item Weight", None)),
                   color |-> Get(tech_details, "Colour", None)],
     connectivity |-> [type |-> Get(tech_details, "Connectivity Type", None),
                       usb2_ports |-> normalize_port_count(
                                          Get(tech_details, "Number of USB 2.0 Ports", None)),
                       usb3_ports |-> normalize_port_count(
                                          Get(tech_details, "Number of USB 3.0 Ports", None))],
     included_components |-> Get(tech_details, "Included Components", None)]

\* if conflicts: specs["specification_conflicts"] = conflicts
with_conflicts(specs, conflicts) ==
    IF Len(conflicts) = 0 THEN specs
    ELSE [k \in DOMAIN specs \cup {"specification_conflicts"} |->
             IF k = "specification_conflicts" THEN conflicts ELSE specs[k]]

\* specs.get("specification_conflicts", [])
ConflictsIn(specs) ==
    IF "specification_conflicts" \in DOMAIN specs THEN specs.specification_conflicts
    ELSE <<>>

----------------------------------------------------------------------------
(* The classifiers on their own: a text and a source flag are drawn, then  *)
(* the classifier named by op runs on them.                                *)

\* the longest whitespace-only text drawn
MaxSpaces == 2

Spaces(n) == [k \in 1..n |-> " "]

\* GPU texts: a lead, a number, a tail, and the texts of the documentation
GpuLead == {<<>>, <<"N","V","I","D","I","A"," ","G","e","F","o","r","c","e"," ","R","T","X"," ">>, <<"R","T","X"," ">>, <<"G","T","X">>, <<"A","M","D"," ","R","a","d","e","o","n"," ","R","X"," ">>, <<"R","a","d","e","o","n"," ">>,
            <<"I","n","t","e","l"," ","A","r","c"," ","A">>, <<"A","r","c"," ">>, <<"I","n","t","e","l"," ","I","r","i","s"," ">>, <<"I","r","i","s"," ","X","e"," ">>, <<"I","n","t","e","l"," ","U","H","D"," ","G","r","a","p","h","i","c","s"," ">>,
            <<"H","D"," ","G","r","a","p","h","i","c","s">>, <<"I","n","t","e","g","r","a","t","e","d"," ">>}
GpuNumber == {<<>>, <<"3","0","6","0">>, <<"4","0","7","0">>, <<"3","0","3","0">>, <<"6","6","0","0">>, <<"7","7","0">>, <<"5","0">>}
GpuTail == {<<>>, <<" ","T","i">>, <<" ","S","U","P","E","R">>, <<" ","X","T">>, <<" ","R","X"," ","6","6","0","0">>, <<" ","M","a","x">>, <<" ","P","r","o"," ">>}
GpuExamples == {None, <<"R","T","X"," ","3","0","6","0"," ","R","X"," ","6","6","0","0">>, <<"N","V","I","D","I","A"," ","G","e","F","o","r","c","e"," ","R","T","X"," ","4","0","7","0">>,
                <<"A","M","D"," ","R","a","d","e","o","n"," ","R","X"," ","6","6","0","0">>, <<"I","n","t","e","l"," ","I","r","i","s"," ","X","e"," ","G","r","a","p","h","i","c","s">>, <<"I","r","i","s"," ","P","l","u","s">>,
                <<"A","S","U","S"," ","R","O","G"," ","S","t","r","i","x"," ","R","T","X"," ","4","0","7","0"," ","R","y","z","e","n"," ","9"," ","7","9","4","0","H","X"," ","L","a","p","t","o","p">>}
GpuTexts == {a \o b \o c : a \in GpuLead, b \in GpuNumber, c \in GpuTail}
            \cup GpuExamples \cup {Spaces(n) : n \in 1..MaxSpaces}

\* CPU texts
CpuLead == {<<>>, <<"I","n","t","e","l"," ","C","o","r","e"," ">>, <<"A","M","D"," ","R","y","z","e","n"," ">>, <<"r","y","z","e","n">>, <<"I","n","t","e","l"," ","C","o","r","e"," ","U","l","t","r","a"," ">>}
CpuSeries == {<<>>, <<"i","5">>, <<"I","7">>, <<"9">>}
CpuSep == {<<>>, <<"-">>, <<" ">>}
CpuNumber == {<<>>, <<"1","2","7","0","0">>, <<"8","5","5","0">>, <<"7","9","4","0">>, <<"5","8","0","0","0">>, <<"1","2","t","h"," ","G","e","n">>}
CpuSuffix == {<<>>, <<"H">>, <<"U">>, <<"H","X">>, <<"K">>}
CpuExamples == {None, <<"I","n","t","e","l"," ","C","o","r","e"," ","i","7","-","1","2","7","0","0","H">>, <<"A","M","D"," ","R","y","z","e","n"," ","9"," ","7","9","4","0","H","X">>,
                <<"A","S","U","S"," ","R","O","G"," ","S","t","r","i","x"," ","R","T","X"," ","4","0","7","0"," ","R","y","z","e","n"," ","9"," ","7","9","4","0","H","X"," ","L","a","p","t","o","p">>}
CpuTexts == {a \o b \o c \o d \o e : a \in CpuLead, b \in CpuSeries, c \in CpuSep,
                                     d \in CpuNumber, e \in CpuSuffix}
            \cup CpuExamples \cup {Spaces(n) : n \in 1..MaxSpaces}

InitClassify ==
    /\ stats = ProcessingStats
    /\ pc = "call"
    /\ ret = None
    /\ \/ /\ op = "parse_gpu_from_text"
          /\ args \in [text : GpuTexts, is_technical_detail : BOOLEAN]
       \/ /\ op = "parse_cpu_from_text"
          /\ args \in [text : CpuTexts, is_technical_detail : BOOLEAN]

ParseGpuFromText ==
    /\ pc = "call" /\ op = "parse_gpu_from_text"
    /\ ret' = parse_gpu_from_text(args.text, args.is_technical_detail)
    /\ pc' = "done"
    /\ UNCHANGED <<stats, op, args>>

ParseCpuFromText ==
    /\ pc = "call" /\ op = "parse_cpu_from_text"
    /\ ret' = parse_cpu_from_text(args.text, args.is_technical_detail)
    /\ pc' = "done"
    /\ UNCHANGED <<stats, op, args>>

NextClassify == ParseGpuFromText \/ ParseCpuFromText

SpecClassify == InitClassify /\ [][NextClassify]_vars

----------------------------------------------------------------------------
(* The parser at work: operations are called one after another on one     *)
(* AmazonParser, whose stats accumulate.                                   *)

\* the most conflicts of one kind counted before the calls stop
MaxConflicts == 2

\* values of "Graphics Card Description", "Processor Type" and "RAM Size" in the
\* technical-detail table (None: the row is missing) and product titles
\* (None: the page has no title element)
TechGpuTexts == {None, <<"N","V","I","D","I","A"," ","G","e","F","o","r","c","e"," ","R","T","X"," ","4","0","7","0">>, <<"A","M","D"," ","R","a","d","e","o","n"," ","R","X"," ","6","6","0","0">>, <<"I","n","t","e","g","r","a","t","e","d">>}
TechCpuTexts == {None, <<"A","M","D"," ","R","y","z","e","n"," ","9"," ","7","9","4","0","H","X">>, <<"I","n","t","e","l"," ","C","o","r","e"," ","i","7","-","1","2","7","0","0","H">>}
TechRamTexts == {None, <<"1","6"," ","G","B">>}
Titles == {None, <<"A","S","U","S"," ","R","O","G"," ","S","t","r","i","x"," ","R","T","X"," ","4","0","7","0"," ","R","y","z","e","n"," ","9"," ","7","9","4","0","H","X"," ","L","a","p","t","o","p">>,
           <<"I","n","t","e","l"," ","I","r","i","s"," ","X","e"," ","G","r","a","p","h","i","c","s"," ","i","5","-","8","5","5","0","U">>, <<"L","e","n","o","v","o"," ","I","d","e","a","P","a","d">>}

TechDetailsOf(gpu, cpu, ram) ==
    LET row == [k \in {"Graphics Card Description", "Processor Type", "RAM Size"} |->
                   IF k = "Graphics Card Description" THEN gpu
                   ELSE IF k = "Processor Type" THEN cpu ELSE ram]
    IN [k \in {j \in DOMAIN row : row[j] # None} |-> row[k]]

TechDetails == {TechDetailsOf(g, c, r) : g \in TechGpuTexts, c \in TechCpuTexts,
                                         r \in TechRamTexts}

Init ==
    /\ stats = ProcessingStats
    /\ op = "__init__"
    /\ pc = "done"
    /\ args = None
    /\ ret = None

\* a caller hands a text to one of the classifiers
CallClassifier ==
    /\ pc = "done"
    /\ op' \in {"parse_gpu_from_text", "parse_cpu_from_text"}
    /\ args' \in [text : (TechGpuTexts \cup TechCpuTexts \cup Titles \cup {<<>>}),
                  is_technical_detail : BOOLEAN]
    /\ pc' = "call"
    /\ ret' = None
    /\ UNCHANGED stats

\* process_html_documents hands the technical details and the title of a page
\* to standardize_specs
CallStandardizeSpecs ==
    /\ pc = "done"
    /\ stats.gpu_conflicts < MaxConflicts
    /\ stats.cpu_conflicts < MaxConflicts
    /\ op' = "standardize_specs"
    /\ args' \in [tech_details : TechDetails, title : Titles]
    /\ pc' = "call"
    /\ ret' = None
    /\ UNCHANGED stats

StandardizeSpecs ==
    /\ pc = "call" /\ op = "standardize_specs"
    /\ LET tech_gpu  == parse_gpu_from_text(
                            Get(args.tech_details, "Graphics Card Description", <<>>), TRUE)
           title_gpu == parse_gpu_from_text(args.title, FALSE)
           tech_cpu  == parse_cpu_from_text(
                            Get(args.tech_details, "Processor Type", <<>>), TRUE)
           title_cpu == parse_cpu_from_text(args.title, FALSE)
       IN /\ stats' = [stats EXCEPT
                         !.gpu_conflicts =
                             IF gpu_brand_conflict(tech_gpu, title_gpu) THEN @ + 1 ELSE @,
                         !.cpu_conflicts =
                             IF cpu_brand_conflict(tech_cpu, title_cpu) THEN @ + 1 ELSE @]
          /\ ret' = with_conflicts(
                        specs_of(args.tech_details,
                                 final_cpu(tech_cpu, title_cpu),
                                 final_gpu(tech_gpu, title_gpu)),
                        conflicts_of(tech_gpu, title_gpu, tech_cpu, title_cpu))
    /\ pc' = "done"
    /\ UNCHANGED <<op, args>>

Next ==
    \/ CallClassifier
    \/ CallStandardizeSpecs
    \/ ParseGpuFromText
    \/ ParseCpuFromText
    \/ StandardizeSpecs

Spec == Init /\ [][Next]_vars

----------------------------------------------------------------------------
(* The unit normalizers on their own: a normalizer and its input are       *)
(* drawn, then the normalizer runs; or a technical-detail table is drawn  *)
(* and standardize_specs normalizes its rows.                              *)

RamLead == {<<>>, <<"R","A","M"," ">>, <<"~">>}
RamNumber == {<<"1","6">>, <<"1","6","3","8","4">>, <<"1">>, <<"8">>, <<"5","1","2">>, <<"1",".","5">>, <<"0",".","2","5">>}
RamGap == {<<>>, <<" ">>, <<" "," ">>}
RamUnit == {<<>>, <<"G","B">>, <<"g","b">>, <<"G","b">>, <<"M","B">>, <<"m","b">>, <<"T","B">>, <<"t","B">>, <<"K","B">>, <<"G">>}
RamTail == {<<>>, <<" ","D","D","R","4">>, <<".">>, <<"s">>}
RamExamples == {None, <<>>, <<"D","D","R","4"," ","1","6"," ","G","B">>, <<"G","B">>, <<"s","i","x","t","e","e","n">>, <<" ">>}
RamTexts == {a \o b \o c \o d \o e : a \in RamLead, b \in RamNumber, c \in RamGap,
                                     d \in RamUnit, e \in RamTail}
            \cup RamExamples

\* what a caller may hand to a normalizer: nothing, an empty text, texts
\* without a number, texts with a number and a unit, and numbers that are not
\* a str
NormalizerInputs ==
    {None, <<>>, <<"s","i","x","t","e","e","n">>, <<" ">>, <<"N","/","A">>, <<"G","B">>, <<"1","5",".","6"," ","i","n","c","h","e","s">>, <<"1","5",".","6","\"">>, <<"1","4"," ","I","n","c","h","e","s">>,
     <<"8"," ","h","o","u","r","s">>, <<"1","0"," ","h","r","s">>, <<"7",".","5"," ","H","o","u","r","s">>, <<"1",".","8"," ","k","g">>, <<"1","8","0","0"," ","g">>, <<"2",".","5"," ","K","i","l","o","g","r","a","m","s">>, <<"5","0","0"," ","g","r","a","m","s">>,
     <<"2">>, <<"U","S","B"," ","3">>, <<".","5">>, <<"1",".">>, PyInt(8), PyInt(0)}

\* rows of the technical-detail table that standardize_specs normalizes, each
\* with a well-formed value and a value without a number
NormalizedRows ==
    [k \in {"RAM Size", "Standing screen display size", "Average Battery Life (in hours)",
            "Item Weight", "Number of USB 2.0 Ports", "Number of USB 3.0 Ports"} |->
        CASE k = "RAM Size" -> {<<"1","6"," ","G","B">>, <<"G","B">>}
          [] k = "Standing screen display size" -> {<<"1","5",".","6"," ","I","n","c","h","e","s">>, <<"I","n","c","h","e","s">>}
          [] k = "Average Battery Life (in hours)" -> {<<"8"," ","H","o","u","r","s">>, <<"H","o","u","r","s">>}
          [] k = "Item Weight" -> {<<"1"," ","k","g"," ","8","0","0"," ","g">>, <<"k","g">>}
          [] k = "Number of USB 2.0 Ports" -> {<<"2">>, <<"t","w","o">>}
          [] k = "Number of USB 3.0 Ports" -> {<<"1">>, <<"-">>}]

\* the tables with any of these rows missing
NormalizedDetails ==
    UNION {{d \in [keys -> UNION {NormalizedRows[k] : k \in keys}] :
               \A k \in keys : d[k] \in NormalizedRows[k]} :
           keys \in SUBSET DOMAIN NormalizedRows}

InitNormalize ==
    /\ stats = ProcessingStats
    /\ pc = "call"
    /\ ret = None
    /\ \/ op = "normalize_ram_size" /\ args \in [ram_size : RamTexts \cup NormalizerInputs]
       \/ op = "normalize_display_size" /\ args \in [display_size : NormalizerInputs]
       \/ op = "normalize_battery_life" /\ args \in [battery_life : NormalizerInputs]
       \/ op = "normalize_weight" /\ args \in [weight : NormalizerInputs]
       \/ op = "normalize_port_count" /\ args \in [port_count : NormalizerInputs]
       \/ op = "standardize_specs"
             /\ args \in [tech_details : NormalizedDetails, title : {<<"L","e","n","o","v","o"," ","I","d","e","a","P","a","d">>}]

NormalizeRamSize ==
    /\ pc = "call" /\ op = "normalize_ram_size"
    /\ ret' = normalize_ram_size(args.ram_size)
    /\ pc' = "done"
    /\ UNCHANGED <<stats, op, args>>

NormalizeDisplaySize ==
    /\ pc = "call" /\ op = "normalize_display_size"
    /\ ret' = normalize_display_size(args.display_size)
    /\ pc' = "done"
    /\ UNCHANGED <<stats, op, args>>

NormalizeBatteryLife ==
    /\ pc = "call" /\ op = "normalize_battery_life"
    /\ ret' = normalize_battery_life(args.battery_life)
    /\ pc' = "done"
    /\ UNCHANGED <<stats, op, args>>

NormalizeWeight ==
    /\ pc = "call" /\ op = "normalize_weight"
    /\ ret' = normalize_weight(args.weight)
    /\ pc' = "done"
    /\ UNCHANGED <<stats, op, args>>

NormalizePortCount ==
    /\ pc = "call" /\ op = "normalize_port_count"
    /\ ret' = normalize_port_count(args.port_count)
    /\ pc' = "done"
    /\ UNCHANGED <<stats, op, args>>

NextNormalize ==
    \/ NormalizeRamSize
    \/ NormalizeDisplaySize
    \/ NormalizeBatteryLife
    \/ NormalizeWeight
    \/ NormalizePortCount
    \/ StandardizeSpecs

SpecNormalize == InitNormalize /\ [][NextNormalize]_vars

----------------------------------------------------------------------------
(* Worker threads sharing one AmazonParser, each calling                   *)
(* standardize_specs on its own document.  Here op, pc, args and ret are   *)
(* functions of the worker: pc[w] is where worker w stands in              *)
(* standardize_specs, op[w] holds its local variables, args[w] its         *)
(* document and ret[w] what the call returned.  self.stats is the one      *)
(* object they all update.  self.stats.gpu_conflicts += 1 is a read of     *)
(* the attribute and a later write of the sum, and a thread may be         *)
(* switched between the two.                                               *)

\* the number of worker threads
NumWorkers == 2

Workers == 1..NumWorkers

\* documents with no conflict, a GPU conflict, a CPU conflict and both
WorkerDocuments ==
    [tech_details : {TechDetailsOf(g, c, None) :
                        g \in {None, <<"N","V","I","D","I","A"," ","G","e","F","o","r","c","e"," ","R","T","X"," ","4","0","7","0">>},
                        c \in {None, <<"A","M","D"," ","R","y","z","e","n"," ","9"," ","7","9","4","0","H","X">>}},
     title : {<<"I","n","t","e","l"," ","I","r","i","s"," ","X","e"," ","G","r","a","p","h","i","c","s"," ","i","5","-","8","5","5","0","U">>}]

InitWorkers ==
    /\ stats = ProcessingStats
    /\ op = [w \in Workers |-> None]
    /\ pc = [w \in Workers |-> "call"]
    /\ args \in [Workers -> WorkerDocuments]
    /\ ret = [w \in Workers |-> None]

\* lines 320-333: the four records are parsed and conflicts is the empty list
ParseTexts(w) ==
    /\ pc[w] = "call"
    /\ op' = [op EXCEPT ![w] =
                [tech_gpu  |-> parse_gpu_from_text(
                                   Get(args[w].tech_details, "Graphics Card Description", <<>>),
                                   TRUE),
                 title_gpu |-> parse_gpu_from_text(args[w].title, FALSE),
                 tech_cpu  |-> parse_cpu_from_text(
                                   Get(args[w].tech_details, "Processor Type", <<>>), TRUE),
                 title_cpu |-> parse_cpu_from_text(args[w].title, FALSE),
                 conflicts |-> <<>>,
                 loaded    |-> 0]]
    /\ pc' = [pc EXCEPT ![w] = "validate_gpu"]
    /\ UNCHANGED <<stats, args, ret>>

\* lines 336-345: on a GPU conflict the entry is appended and
\* self.stats.gpu_conflicts is read
ReadGpuConflicts(w) ==
    /\ pc[w] = "validate_gpu"
    /\ IF gpu_brand_conflict(op[w].tech_gpu, op[w].title_gpu)
       THEN /\ op' = [op EXCEPT
                        ![w].conflicts = Append(@, Conflict(<<"G","P","U">>, op[w].tech_gpu,
                                                            op[w].title_gpu)),
                        ![w].loaded = stats.gpu_conflicts]
            /\ pc' = [pc EXCEPT ![w] = "store_gpu"]
       ELSE /\ pc' = [pc EXCEPT ![w] = "validate_cpu"]
            /\ UNCHANGED op
    /\ UNCHANGED <<stats, args, ret>>

\* line 345: the value read, plus one, is written to self.stats.gpu_conflicts
WriteGpuConflicts(w) ==
    /\ pc[w] = "store_gpu"
    /\ stats' = [stats EXCEPT !.gpu_conflicts = op[w].loaded + 1]
    /\ pc' = [pc EXCEPT ![w] = "validate_cpu"]
    /\ UNCHANGED <<op, args, ret>>

\* lines 348-357: on a CPU conflict the entry is appended and
\* self.stats.cpu_conflicts is read
ReadCpuConflicts(w) ==
    /\ pc[w] = "validate_cpu"
    /\ IF cpu_brand_conflict(op[w].tech_cpu, op[w].title_cpu)
       THEN /\ op' = [op EXCEPT
                        ![w].conflicts = Append(@, Conflict(<<"C","P","U">>, op[w].tech_cpu,
                                                            op[w].title_cpu)),
                        ![w].loaded = stats.cpu_conflicts]
            /\ pc' = [pc EXCEPT ![w] = "store_cpu"]
       ELSE /\ pc' = [pc EXCEPT ![w] = "return"]
            /\ UNCHANGED op
    /\ UNCHANGED <<stats, args, ret>>

\* line 357: the value read, plus one, is written to self.stats.cpu_conflicts
WriteCpuConflicts(w) ==
    /\ pc[w] = "store_cpu"
    /\ stats' = [stats EXCEPT !.cpu_conflicts = op[w].loaded + 1]
    /\ pc' = [pc EXCEPT ![w] = "return"]
    /\ UNCHANGED <<op, args, ret>>

\* lines 360-402: the specs dict is built and returned
ReturnSpecs(w) ==
    /\ pc[w] = "return"
    /\ ret' = [ret EXCEPT ![w] =
                 with_conflicts(
                     specs_of(args[w].tech_details,
                              final_cpu(op[w].tech_cpu, op[w].title_cpu),
                              final_gpu(op[w].tech_gpu, op[w].title_gpu)),
                     op[w].conflicts)]
    /\ pc' = [pc EXCEPT ![w] = "done"]
    /\ UNCHANGED <<stats, op, args>>

NextWorkers ==
    \E w \in Workers :
        \/ ParseTexts(w)
        \/ ReadGpuConflicts(w)
        \/ WriteGpuConflicts(w)
        \/ ReadCpuConflicts(w)
        \/ WriteCpuConflicts(w)
        \/ ReturnSpecs(w)

SpecWorkers == InitWorkers /\ [][NextWorkers]_vars

----------------------------------------------------------------------------
(* AmazonParser.process_html_documents: the loop over the raw pages.  The  *)
(* collections are MongoDB's and BeautifulSoup parses the page, so what    *)
(* they answer is drawn: a call of theirs returns or raises.  args holds   *)
(* the cursor over raw_pages, the document in hand, the laptop_doc built   *)
(* from it and the _id of each document in laptop_specs.                   *)

\* the most documents in raw_pages
MaxDocuments == 2

\* the HTML of a page, as the title and the technical-detail table that
\* extract_title and parse_technical_details find in it
Page(title, tech_details) == <<"html", title, tech_details>>

\* what a raw document holds as its content: nothing, an empty text, a number
\* (BeautifulSoup raises TypeError for it), a page without a conflict and a
\* page whose title and technical details name different GPU brands
Contents ==
    {None, <<>>, PyInt(5),
     Page(<<"L","e","n","o","v","o"," ","I","d","e","a","P","a","d">>, TechDetailsOf(None, None, <<"1","6"," ","G","B">>)),
     Page(<<"I","n","t","e","l"," ","I","r","i","s"," ","X","e"," ","G","r","a","p","h","i","c","s"," ","i","5","-","8","5","5","0","U">>,
          TechDetailsOf(<<"N","V","I","D","I","A"," ","G","e","F","o","r","c","e"," ","R","T","X"," ","4","0","7","0">>, None, None))}

\* raw_collection.find(): documents with consecutive _id
RawPages ==
    UNION {{[k \in 1..n |-> [_id |-> k, content |-> c[k]]] : c \in [1..n -> Contents]} :
           n \in 0..MaxDocuments}

InitProcess ==
    /\ stats = ProcessingStats
    /\ op = "process_html_documents"
    /\ pc = "call"
    /\ args \in [cursor : RawPages, doc : {None}, laptop_doc : {None}, laptop_specs : {<<>>}]
    /\ ret = None

\* lines 478-484: laptop_collection.drop()
DropCollection ==
    /\ pc = "call" /\ op = "process_html_documents"
    /\ pc' = "for"
    /\ UNCHANGED <<stats, op, args, ret>>

\* lines 486-495: the next document is read and counted; without HTML content
\* it is a failure and the loop continues
ReadDocument ==
    /\ pc = "for" /\ Len(args.cursor) > 0
    /\ LET doc == Head(args.cursor)
       IN /\ args' = [args EXCEPT !.cursor = Tail(@), !.doc = doc, !.laptop_doc = None]
          /\ IF ~Truthy(doc.content)
             THEN /\ stats' = [stats EXCEPT !.total_documents = @ + 1,
                                            !.failed_processing = @ + 1]
                  /\ pc' = "for"
             ELSE /\ stats' = [stats EXCEPT !.total_documents = @ + 1]
                  /\ pc' = "parse"
    /\ UNCHANGED <<op, ret>>

\* lines 497-516: the page is parsed, its specifications standardized and the
\* laptop_doc created; an exception (line 533) makes the document a failure
ParseDocument ==
    /\ pc = "parse"
    /\ IF args.doc.content[1] # "html"
       THEN /\ stats' = [stats EXCEPT !.failed_processing = @ + 1]
            /\ pc' = "for"
            /\ UNCHANGED args
       ELSE LET title        == args.doc.content[2]
                tech_details == args.doc.content[3]
                tech_gpu  == parse_gpu_from_text(
                                 Get(tech_details, "Graphics Card Description", <<>>), TRUE)
                title_gpu == parse_gpu_from_text(title, FALSE)
                tech_cpu  == parse_cpu_from_text(
                                 Get(tech_details, "Processor Type", <<>>), TRUE)
                title_cpu == parse_cpu_from_text(title, FALSE)
                specs == with_conflicts(
                             specs_of(tech_details, final_cpu(tech_cpu, title_cpu),
                                      final_gpu(tech_gpu, title_gpu)),
                             conflicts_of(tech_gpu, title_gpu, tech_cpu, title_cpu))
            IN /\ stats' = [stats EXCEPT
                              !.gpu_conflicts =
                                  IF gpu_brand_conflict(tech_gpu, title_gpu) THEN @ + 1 ELSE @,
                              !.cpu_conflicts =
                                  IF cpu_brand_conflict(tech_cpu, title_cpu) THEN @ + 1 ELSE @]
               /\ args' = [args EXCEPT !.laptop_doc =
                              [source_id |-> args.doc._id, title |-> title,
                               specifications |-> specs, raw_specs |-> tech_details]]
               /\ pc' = "insert"
    /\ UNCHANGED <<op, ret>>

\* lines 519-523 and 529-531: insert_one returns a result with an inserted_id,
\* and the document is a success and an insertion; or a result without one,
\* and it is a failure; or raises, and it is a failure (line 533)
InsertDocument ==
    /\ pc = "insert"
    /\ \E result \in {"inserted_id", "no inserted_id", "raise"} :
         CASE result = "inserted_id" ->
                /\ stats' = [stats EXCEPT !.successful_processing = @ + 1,
                                          !.inserted_documents = @ + 1]
                /\ args' = [args EXCEPT !.laptop_specs = Append(@, args.laptop_doc.source_id)]
                /\ pc' = "verify"
           [] result = "no inserted_id" ->
                /\ stats' = [stats EXCEPT !.failed_processing = @ + 1]
                /\ pc' = "for"
                /\ UNCHANGED args
           [] result = "raise" ->
                /\ stats' = [stats EXCEPT !.failed_processing = @ + 1]
                /\ pc' = "for"
                /\ UNCHANGED args
    /\ UNCHANGED <<op, ret>>

\* lines 525-528: find_one returns the inserted document, or None, and a
\* warning is logged; or raises, and line 533 counts a failure
VerifyDocument ==
    /\ pc = "verify"
    /\ \E inserted_doc \in {"found", "None", "raise"} :
         IF inserted_doc = "raise"
         THEN stats' = [stats EXCEPT !.failed_processing = @ + 1]
         ELSE UNCHANGED stats
    /\ pc' = "for"
    /\ UNCHANGED <<op, args, ret>>

\* lines 542-559: the cursor is exhausted; the statistics are logged and returned
ReturnStats ==
    /\ pc = "for" /\ Len(args.cursor) = 0
    /\ ret' = stats
    /\ pc' = "done"
    /\ UNCHANGED <<stats, op, args>>

NextProcess ==
    \/ DropCollection
    \/ ReadDocument
    \/ ParseDocument
    \/ InsertDocument
    \/ VerifyDocument
    \/ ReturnStats

SpecProcess == InitProcess /\ [][NextProcess]_vars

----------------------------------------------------------------------------
(* Properties of the classifiers (SpecClassify) *)

Classifiers == {"parse_gpu_from_text", "parse_cpu_from_text"}

\* a classifier has returned
Classified == pc = "done" /\ op \in Classifiers

\* brand, series, model, variant (and generation) are all absent
NoIdentity(info) == \A f \in DOMAIN info \ {"source", "confidence"} : info[f] = None

\* source and confidence are the pair the source flag selects
TaggedBy(info, is_technical_detail) ==
    IF is_technical_detail
    THEN info.source = <<"t","e","c","h","n","i","c","a","l","_","d","e","t","a","i","l">> /\ info.confidence = <<"h","i","g","h">>
    ELSE info.source = <<"t","i","t","l","e">> /\ info.confidence = <<"l","o","w">>

\* the text as the patterns see it
Seen(text) == strip(lower(text))

\* C3: for absent or empty text both classifiers return a record with no
\* identity field set whose source and confidence are the pair selected by the
\* source flag.
C3_EmptyTextIsTagged ==
    (Classified /\ ~Truthy(args.text)) =>
        NoIdentity(ret) /\ TaggedBy(ret, args.is_technical_detail)

\* C5: brand order, first match wins.  GPU text that matches an NVIDIA pattern
\* is NVIDIA with only NVIDIA's series and variants; text that matches no NVIDIA
\* pattern and an Intel one is Intel with only Intel's series and variants; CPU
\* text that matches an Intel pattern is Intel with Intel's series, generation
\* format and variants: nothing of a later brand shows in the result.
C5_BrandPrecedence ==
    (Classified /\ Truthy(args.text)) =>
        LET matches_nvidia == FirstMatch(nvidia_patterns, Seen(args.text)).ok
            matches_intel_gpu == FirstMatch(intel_gpu_patterns, Seen(args.text)).ok
            matches_intel_cpu == FirstMatch(intel_cpu_patterns, Seen(args.text)).ok
        IN /\ (op = "parse_gpu_from_text" /\ matches_nvidia) =>
                  /\ ret.brand = <<"N","V","I","D","I","A">>
                  /\ ret.series \in {None, <<"R","T","X">>, <<"G","T","X">>}
                  /\ ret.variant \in {None, <<"T","i">>, <<"S","U","P","E","R">>}
                  /\ ret.model # None
                  /\ SubSeq(ret.model, 1, 2) \in {<<"4","0">>, <<"3","0">>, <<"2","0">>, <<"1","6">>, <<"1","0">>}
           /\ (op = "parse_gpu_from_text" /\ ~matches_nvidia /\ matches_intel_gpu) =>
                  /\ ret.brand = <<"I","n","t","e","l">>
                  /\ ret.series \in {<<"A","r","c">>, <<"I","r","i","s">>, <<"U","H","D">>, <<"H","D">>}
                  /\ ret.variant \in {None, <<"X","e"," ","M","A","X">>, <<"X","e">>, <<"P","r","o">>, <<"P","l","u","s">>}
           /\ (op = "parse_cpu_from_text" /\ matches_intel_cpu) =>
                  /\ ret.brand = <<"I","n","t","e","l">>
                  /\ ret.series \in {<<"U","L","T","R","A">>, <<"I","3">>, <<"I","5">>, <<"I","7">>, <<"I","9">>}
                  /\ ret.generation # None
                  /\ SubSeq(ret.generation, Len(ret.generation) - 5,
                            Len(ret.generation)) = <<"t","h"," ","G","e","n">>
                  /\ ret.variant \in {None, <<"H">>, <<"U">>, <<"H","X">>, <<"K">>}

\* a text that matches an NVIDIA and an AMD pattern has been classified
C5_Witness ==
    /\ Classified /\ op = "parse_gpu_from_text"
    /\ args.text = <<"R","T","X"," ","3","0","6","0"," ","R","X"," ","6","6","0","0">>
    /\ FirstMatch(nvidia_patterns, Seen(args.text)).ok
    /\ FirstMatch(amd_gpu_patterns, Seen(args.text)).ok
    /\ ret.brand = <<"N","V","I","D","I","A">>

\* C6: for text classified NVIDIA the model is the matched series number
\* (40/30/20/16/10) followed by the two digits matched after it, the four-digit
\* number of the text: "RTX 3060 RX 6600" gives "3060", "NVIDIA GeForce RTX 4070"
\* gives "4070".
C6_NvidiaModel ==
    (Classified /\ op = "parse_gpu_from_text" /\ Truthy(args.text) /\ ret.brand = <<"N","V","I","D","I","A">>) =>
        LET m == FirstMatch(nvidia_patterns, Seen(args.text))
        IN /\ ret.model = groups(m)[3] \o groups(m)[4]
           /\ args.text = <<"R","T","X"," ","3","0","6","0"," ","R","X"," ","6","6","0","0">> => ret.model = <<"3","0","6","0">>
           /\ args.text = <<"N","V","I","D","I","A"," ","G","e","F","o","r","c","e"," ","R","T","X"," ","4","0","7","0">> => ret.model = <<"4","0","7","0">>

\* C7: "Intel Core i<k>-<gen><3 digits><suffix>" gives series I<k>, generation
\* "<gen>th Gen" and, for a suffix h/u/hx/k, variant the upper-cased suffix;
\* "Intel Core i7-12700H" gives "I7", "12th Gen", "H".
C7_IntelCore ==
    (Classified /\ op = "parse_cpu_from_text") =>
        \A k \in {<<"i","5">>, <<"i","7">>}, gen \in {<<"8">>, <<"1","2">>}, digits \in {<<"5","5","0">>, <<"7","0","0">>},
           suffix \in {<<"H">>, <<"U">>, <<"H","X">>, <<"K">>} :
            args.text = <<"I","n","t","e","l"," ","C","o","r","e"," ">> \o k \o <<"-">> \o gen \o digits \o suffix =>
                /\ ret.series = upper(k)
                /\ ret.generation = gen \o <<"t","h"," ","G","e","n">>
                /\ ret.variant = suffix

\* C8: for text classified as an AMD CPU the series is "Ryzen <d>" with d the
\* digit 3/5/7/9 that follows "ryzen", the model is a number of 4 or 5 digits of
\* the text, and the generation is "Gen <x>" with x the first digit of the model;
\* generation and model are set together.  "AMD Ryzen 9 7940HX" gives AMD,
\* "Ryzen 9", "7940", "Gen 7".
C8_AmdCpu ==
    (Classified /\ op = "parse_cpu_from_text" /\ Truthy(args.text) /\ ret.brand = <<"A","M","D">>) =>
        /\ \E d \in {<<"3">>, <<"5">>, <<"7">>, <<"9">>} :
              /\ ret.series = <<"R","y","z","e","n"," ">> \o d
              /\ \E n \in 0..Len(args.text) :
                    Contains(Seen(args.text), <<"r","y","z","e","n">> \o Spaces(n) \o d)
        /\ (ret.model # None) <=> (ret.generation # None)
        /\ ret.model # None
        /\ Len(ret.model) \in {4, 5}
        /\ IsDigits(ret.model, Len(ret.model))
        /\ Contains(Seen(args.text), ret.model)
        /\ ret.generation = <<"G","e","n"," ">> \o <<ret.model[1]>>
        /\ args.text = <<"A","M","D"," ","R","y","z","e","n"," ","9"," ","7","9","4","0","H","X">> =>
              ret.series = <<"R","y","z","e","n"," ","9">> /\ ret.model = <<"7","9","4","0">> /\ ret.generation = <<"G","e","n"," ","7">>

\* the documented AMD text has been classified
C8_Witness ==
    /\ Classified /\ op = "parse_cpu_from_text"
    /\ args.text = <<"A","M","D"," ","R","y","z","e","n"," ","9"," ","7","9","4","0","H","X">>
    /\ ret.brand = <<"A","M","D">>

\* no pattern of any brand of the classifier matches the text
Unmatched ==
    IF op = "parse_gpu_from_text"
    THEN ~FirstMatch(nvidia_patterns \o intel_gpu_patterns \o amd_gpu_patterns,
                     Seen(args.text)).ok
    ELSE ~FirstMatch(intel_cpu_patterns \o amd_cpu_patterns, Seen(args.text)).ok

\* C9: non-empty text that matches no pattern of any brand gives a record with
\* no identity field set and with source and confidence set by the source flag.
C9_UnmatchedText ==
    (Classified /\ Truthy(args.text) /\ Unmatched) =>
        NoIdentity(ret) /\ TaggedBy(ret, args.is_technical_detail)

\* a text of words no pattern knows has been classified as technical detail
C9_Witness ==
    /\ Classified /\ op = "parse_gpu_from_text"
    /\ args.text = <<"I","n","t","e","g","r","a","t","e","d"," ">>
    /\ args.is_technical_detail
    /\ Unmatched
    /\ ret.brand = None /\ ret.source = <<"t","e","c","h","n","i","c","a","l","_","d","e","t","a","i","l">>

----------------------------------------------------------------------------
(* Properties of standardize_specs and of the records it assembles (Spec) *)

\* standardize_specs has returned
Standardized == pc = "done" /\ op = "standardize_specs"

\* what the two sources say, classified again from the arguments of the call
TechGpuOf(a)  == parse_gpu_from_text(Get(a.tech_details, "Graphics Card Description", <<>>), TRUE)
TitleGpuOf(a) == parse_gpu_from_text(a.title, FALSE)
TechCpuOf(a)  == parse_cpu_from_text(Get(a.tech_details, "Processor Type", <<>>), TRUE)
TitleCpuOf(a) == parse_cpu_from_text(a.title, FALSE)

\* C1: the final record of a component is the whole technical-detail result
\* when that has a brand and otherwise the whole title result, every sub-field
\* from the one chosen source; the final brand is absent only if both sources
\* found no brand.
C1_OneSourceWins ==
    Standardized =>
        /\ ret.graphics = (IF TechGpuOf(args).brand # None THEN TechGpuOf(args)
                           ELSE TitleGpuOf(args))
        /\ ret.processor = (IF TechCpuOf(args).brand # None THEN TechCpuOf(args)
                            ELSE TitleCpuOf(args))
        /\ ret.graphics.brand = None =>
               TechGpuOf(args).brand = None /\ TitleGpuOf(args).brand = None
        /\ ret.processor.brand = None =>
               TechCpuOf(args).brand = None /\ TitleCpuOf(args).brand = None

\* the technical detail names a GPU without a variant, the title another GPU
\* with one, and no processor row exists: graphics is the technical-detail
\* record, processor the title's
C1_Witness ==
    /\ Standardized
    /\ args.title = <<"I","n","t","e","l"," ","I","r","i","s"," ","X","e"," ","G","r","a","p","h","i","c","s"," ","i","5","-","8","5","5","0","U">>
    /\ ret.graphics.brand = <<"N","V","I","D","I","A">> /\ ret.graphics.variant = None
    /\ ret.graphics.source = <<"t","e","c","h","n","i","c","a","l","_","d","e","t","a","i","l">>
    /\ ret.processor.brand = <<"I","n","t","e","l">> /\ ret.processor.source = <<"t","i","t","l","e">>

\* the conflict entries of one component
EntriesFor(specs, component) ==
    SelectSeq(ConflictsIn(specs), LAMBDA c : c.component = component)

\* one entry for the brands tech and title and one more conflict counted, when
\* both are present and differ; otherwise no entry and the counter unchanged
ConflictRule(tech, title, entries, before, after) ==
    IF tech # None /\ title # None /\ tech # title
    THEN /\ Len(entries) = 1
         /\ entries[1].field = <<"b","r","a","n","d">>
         /\ entries[1].tech_value = tech
         /\ entries[1].title_value = title
         /\ after = before + 1
    ELSE /\ Len(entries) = 0
         /\ after = before

\* C2: a call of standardize_specs appends a conflict entry for a component and
\* adds exactly 1 to its counter if and only if both sources have a brand and
\* the brands differ; in every other case it appends none and leaves the
\* counter as it was.
C2_ConflictIffBrandsDiffer ==
    [][(pc = "call" /\ op = "standardize_specs" /\ pc' = "done") =>
          /\ ConflictRule(TechGpuOf(args).brand, TitleGpuOf(args).brand,
                          EntriesFor(ret', <<"G","P","U">>),
                          stats.gpu_conflicts, stats'.gpu_conflicts)
          /\ ConflictRule(TechCpuOf(args).brand, TitleCpuOf(args).brand,
                          EntriesFor(ret', <<"C","P","U">>),
                          stats.cpu_conflicts, stats'.cpu_conflicts)]_vars

\* the first call found AMD graphics in the technical details and Intel
\* graphics in the title, and no processor conflict
C2_Witness ==
    /\ Standardized
    /\ Len(ConflictsIn(ret)) = 1
    /\ ConflictsIn(ret)[1].component = <<"G","P","U">>
    /\ ConflictsIn(ret)[1].tech_value = <<"A","M","D">>
    /\ ConflictsIn(ret)[1].title_value = <<"I","n","t","e","l">>
    /\ stats.gpu_conflicts = 1 /\ stats.cpu_conflicts = 0

\* confidence is high exactly when the source is the technical detail
HighIffTechnical(info) ==
    (info.confidence = <<"h","i","g","h">>) <=> (info.source = <<"t","e","c","h","n","i","c","a","l","_","d","e","t","a","i","l">>)

\* C4: every record a classifier returns, and every final processor and
\* graphics record of a specification, has confidence 'high' if and only if
\* its source is 'technical_detail'.
C4_ConfidenceFollowsSource ==
    /\ (pc = "done" /\ op \in {"parse_gpu_from_text", "parse_cpu_from_text"}) =>
           HighIffTechnical(ret)
    /\ Standardized => HighIffTechnical(ret.graphics) /\ HighIffTechnical(ret.processor)

\* a specification whose graphics come from the title and whose processor
\* comes from the technical details
C4_Witness ==
    /\ Standardized
    /\ ret.graphics.source = <<"t","i","t","l","e">> /\ ret.graphics.confidence = <<"l","o","w">>
    /\ ret.processor.source = <<"t","e","c","h","n","i","c","a","l","_","d","e","t","a","i","l">> /\ ret.processor.confidence = <<"h","i","g","h">>

----------------------------------------------------------------------------
(* Properties of normalize_ram_size (SpecNormalize) *)

\* the value of each number a RAM text is built from, as numerator and denominator
RamValue(number) ==
    CASE number = <<"1","6">>    -> <<16, 1>>
      [] number = <<"1","6","3","8","4">> -> <<16384, 1>>
      [] number = <<"1">>     -> <<1, 1>>
      [] number = <<"8">>     -> <<8, 1>>
      [] number = <<"5","1","2">>   -> <<512, 1>>
      [] number = <<"1",".","5">>   -> <<3, 2>>
      [] number = <<"0",".","2","5">>  -> <<1, 4>>

\* the gigabytes of a number with a unit: MB divides by 1024, TB multiplies by
\* 1024, anything else (GB, no unit, a unit that is none of the three) leaves it
Gigabytes(number, unit) ==
    LET v == RamValue(number)
    IN IF unit \in {<<"M","B">>, <<"m","b">>} THEN PyFloat(v[1], v[2] * 1024)
       ELSE IF unit \in {<<"T","B">>, <<"t","B">>} THEN PyFloat(v[1] * 1024, v[2])
       ELSE PyFloat(v[1], v[2])

IsPrefix(p, s) == Len(p) <= Len(s) /\ SubSeq(s, 1, Len(p)) = p

\* C10: normalize_ram_size returns the first number of the text in gigabytes:
\* divided by 1024 when the unit after it is MB, multiplied by 1024 when it is
\* TB, unchanged when it is GB or absent, in either case of the letters;
\* "16 GB" gives 16, "16384 MB" gives 16 and "1 TB" gives 1024.
C10_RamInGigabytes ==
    (pc = "done" /\ op = "normalize_ram_size" /\ Truthy(args.ram_size)) =>
        /\ \A lead \in RamLead : IsPrefix(lead, args.ram_size) =>
             \A number \in RamNumber : IsPrefix(lead \o number, args.ram_size) =>
               \A gap \in RamGap, unit \in RamUnit, tail \in RamTail :
                  args.ram_size = lead \o number \o gap \o unit \o tail =>
                      ret = Gigabytes(number, unit)
        /\ args.ram_size = <<"1","6"," ","G","B">> => ret = <<"float", 16, 1>>
        /\ args.ram_size = <<"1","6","3","8","4"," ","M","B">> => ret = <<"float", 16, 1>>
        /\ args.ram_size = <<"1"," ","T","B">> => ret = <<"float", 1024, 1>>
        /\ args.ram_size = <<"D","D","R","4"," ","1","6"," ","G","B">> => ret = <<"float", 4, 1>>

\* a size in lower-case megabytes has been normalized
C10_Witness ==
    /\ pc = "done" /\ op = "normalize_ram_size"
    /\ args.ram_size = <<"R","A","M"," ","5","1","2"," "," ","m","b"," ","D","D","R","4">>
    /\ ret = <<"float", 1, 2>>

----------------------------------------------------------------------------
(* Properties of the five normalizers (SpecNormalize) *)

Normalizers == {"normalize_ram_size", "normalize_display_size", "normalize_battery_life",
                "normalize_weight", "normalize_port_count"}

\* the one argument of a normalizer call
ArgOf(a) == a[CHOOSE f \in DOMAIN a : TRUE]

\* a text with no digit in it
NoNumber(x) == IsStr(x) /\ \A k \in 1..Len(x) : x[k] \notin Digits

\* the field of the specs dict that holds the normalized value of a row
FieldOf(specs, key) ==
    CASE key = "RAM Size" -> specs.memory.ram_size
      [] key = "Standing screen display size" -> specs.display.size
      [] key = "Average Battery Life (in hours)" -> specs.battery.life
      [] key = "Item Weight" -> specs.physical.weight
      [] key = "Number of USB 2.0 Ports" -> specs.connectivity.usb2_ports
      [] key = "Number of USB 3.0 Ports" -> specs.connectivity.usb3_ports

\* C11: none of the five normalizers raises: what it returns is a number or
\* None, it is None for None and for the empty text, and None for a text with
\* no digit; and standardize_specs puts None in every normalized field whose
\* row is missing from the technical details.
C11_NormalizersNeverRaise ==
    /\ (pc = "done" /\ op \in Normalizers) =>
          /\ ~Raised(ret)
          /\ ret = None \/ IsNumber(ret)
          /\ (ArgOf(args) = None \/ ArgOf(args) = <<>>) => ret = None
          /\ NoNumber(ArgOf(args)) => ret = None
    /\ (pc = "done" /\ op = "standardize_specs") =>
          \A key \in DOMAIN NormalizedRows \ DOMAIN args.tech_details :
              FieldOf(ret, key) = None

\* a number that is not a str has been handed to a normalizer: the search
\* raised TypeError and the normalizer returned None
C11_Witness ==
    /\ pc = "done" /\ op = "normalize_weight"
    /\ args.weight = PyInt(8)
    /\ ret = None


----------------------------------------------------------------------------
(* Properties of concurrent standardize_specs calls (SpecWorkers) *)

RECURSIVE EntriesOfAll(_, _)
\* the number of conflict entries of one component in the specs returned to
\* the workers 1..n
EntriesOfAll(n, component) ==
    IF n = 0 THEN 0
    ELSE Len(EntriesFor(ret[n], component)) + EntriesOfAll(n - 1, component)

\* C12: when the concurrent standardize_specs calls of all workers have
\* completed, gpu_conflicts and cpu_conflicts equal the number of GPU and of
\* CPU conflict entries in the specs the calls returned: no increment is lost.
C12_NoLostUpdates ==
    (\A w \in Workers : pc[w] = "done") =>
        /\ stats.gpu_conflicts = EntriesOfAll(NumWorkers, <<"G","P","U">>)
        /\ stats.cpu_conflicts = EntriesOfAll(NumWorkers, <<"C","P","U">>)

----------------------------------------------------------------------------
(* Properties of process_html_documents (SpecProcess) *)

\* C13: when an iteration of the loop over the raw pages has completed, every
\* document read so far has been counted once, as a success or as a failure:
\* total_documents = successful_processing + failed_processing, and
\* inserted_documents = successful_processing.
C13_CountedOnce ==
    (op = "process_html_documents" /\ pc \in {"for", "done"}) =>
        /\ stats.total_documents = stats.successful_processing + stats.failed_processing
        /\ stats.inserted_documents = stats.successful_processing
====
